---- MODULE Spec2Model ----
(***************************************************************************)
(* Model of xgx_intern: Interner<T, S, H> (src/src/lib.rs), a store of      *)
(* unique values kept in an insertion-ordered IndexSet and addressed by     *)
(* handles of a caller-chosen integer type H.                               *)
(*                                                                          *)
(* The store is the sequence `items` (index i of the IndexSet is element    *)
(* i + 1 of the sequence).  Every public method is an operator computing    *)
(* the method's result and the store it leaves, and an action applying it.  *)
(* `last` records the most recent call (arguments, result, the store before *)
(* the call), so that a statement about a call is a state predicate: Spec   *)
(* is the store under every call a caller can make.  SpecCaller is the      *)
(* store driven by a caller that keeps the handles it is given and follows  *)
(* the removal protocol: `held` is the handle it keeps for each value it    *)
(* interned, `pending` the removed handle it has yet to repair them for.    *)
(* SpecGrow is the store of a caller that only interns, keeps its handles   *)
(* and exports at the end.                                                  *)
(***************************************************************************)
EXTENDS Integers, Sequences, FiniteSets

VARIABLES items, last, held, pending

vars == <<items, last, held, pending>>

----------------------------------------------------------------------------
(* Bounds and value universes                                              *)

\* H::MAX of the handle type H (255 for u8, 65535 for u16, ...), kept small.
HandleMax == 2

\* Number of values the handle type H can represent (2^w for w bits).
HandleCount == HandleMax + 1

\* Every value of type H a caller can pass as a handle (unsigned H).
Handles == 0 .. HandleMax

\* Borrowed keys (&Q): one more than fits, so that the store can overflow.
Keys == 1 .. (HandleCount + 1)

\* Option<X>: None is the empty sequence, Some(x) the one-element sequence.
None == << >>

Some(x) == << x >>

----------------------------------------------------------------------------
(* Value construction (src/src/from_ref.rs) and Borrow                     *)

\* FromRef::from_ref(&Q) -> T: a freshly owned value with the key's content.
from_ref(q) == [owned |-> q]

\* <T as Borrow<Q>>::borrow(&T) -> &Q: the borrowed view used by lookups.
borrow(t) == t.owned

\* Every owned value of type T a caller can hand over.
Values == { from_ref(q) : q \in Keys }

----------------------------------------------------------------------------
(* Handle algebra                                                          *)

\* H::try_from(idx).ok(): Some(handle) iff idx fits the handle type.
h_try_from(idx) == IF idx >= 0 /\ idx <= HandleMax THEN Some(idx) ELSE None

\* usize::try_from(handle).ok(): every value of an unsigned H is an index.
usize_try_from(h) == IF h >= 0 THEN Some(h) ELSE None

\* Result<H, InternerError>: [err, h]; err = TRUE is Err(Overflow).
Ok(h) == [err |-> FALSE, h |-> Some(h)]

Overflow == [err |-> TRUE, h |-> None]

\* idx_to_handle that lets the first index past H::MAX through.
idx_to_handle_lenient(idx) ==
  IF idx >= 1 /\ h_try_from(idx - 1) = None THEN Overflow ELSE Ok(idx)

\* Off-by-one variant of idx_to_handle: rejects the last representable index.
idx_to_handle_strict(idx) == IF h_try_from(idx + 1) = None THEN Overflow ELSE Ok(idx)

\* Interner::idx_to_handle: H::try_from(idx).map_err(|_| Overflow).
idx_to_handle(idx) == IF h_try_from(idx) = None THEN Overflow ELSE Ok(h_try_from(idx)[1])

----------------------------------------------------------------------------
(* IndexSet operations used by the store (indices are zero-based)          *)

\* IndexSet::get_index_of(&Q): index of the element whose borrow equals q.
get_index_of(s, q) ==
  IF \E i \in 1 .. Len(s) : borrow(s[i]) = q
  THEN Some((CHOOSE i \in 1 .. Len(s) : borrow(s[i]) = q) - 1)
  ELSE None

\* IndexSet::contains(&Q).
set_contains(s, q) == \E i \in 1 .. Len(s) : borrow(s[i]) = q

\* IndexSet::get_index(idx).
get_index(s, idx) == IF idx >= 0 /\ idx < Len(s) THEN Some(s[idx + 1]) ELSE None

\* Plain push: appends even when an equal element is present.
insert_push(s, t) == Append(s, t)

\* Insertion at the front: the new element takes index 0.
insert_front(s, t) == IF set_contains(s, borrow(t)) THEN s ELSE << t >> \o s

\* IndexSet::insert(value): appends value unless an equal element is present.
insert(s, t) == IF set_contains(s, borrow(t)) THEN s ELSE Append(s, t)

\* swap_remove: the last element takes the removed slot (order not kept).
swap_remove_at(s, idx) ==
  [i \in 1 .. (Len(s) - 1) |-> IF i = idx + 1 THEN s[Len(s)] ELSE s[i]]

\* shift_remove: the removed slot is closed by shifting the tail down by one.
shift_remove_at(s, idx) ==
  [i \in 1 .. (Len(s) - 1) |-> IF i <= idx THEN s[i] ELSE s[i + 1]]

\* IndexSet::swap_remove_index in the place of shift_remove_index.
swap_remove_index(s, idx) ==
  IF idx >= 0 /\ idx < Len(s)
  THEN [val |-> Some(s[idx + 1]), items |-> swap_remove_at(s, idx)]
  ELSE [val |-> None, items |-> s]

\* IndexSet::shift_remove_index(idx) -> Option<T>, with the set it leaves.
shift_remove_index(s, idx) ==
  IF idx >= 0 /\ idx < Len(s)
  THEN [val |-> Some(s[idx + 1]), items |-> shift_remove_at(s, idx)]
  ELSE [val |-> None, items |-> s]

\* IndexSet::get_full in the place of shift_remove_full: the value is found
\* and returned but stays in the set.
get_full_unremoved(s, q) ==
  LET found == get_index_of(s, q) IN
  IF found = None
  THEN [idx |-> None, val |-> None, items |-> s]
  ELSE [idx |-> found, val |-> Some(s[found[1] + 1]), items |-> s]

\* IndexSet::shift_remove_full(&Q) -> Option<(usize, T)>, with the set it leaves.
shift_remove_full(s, q) ==
  LET found == get_index_of(s, q) IN
  IF found = None
  THEN [idx |-> None, val |-> None, items |-> s]
  ELSE [idx |-> found, val |-> Some(s[found[1] + 1]),
        items |-> shift_remove_at(s, found[1])]

----------------------------------------------------------------------------
(* Interner methods: each yields the call's result and the store it leaves *)

\* Interner::new(hasher): IndexSet::with_hasher, a set with no element.
new == << >>

\* A constructor that takes the capacity for a length and fills the set.
with_capacity_filled(capacity) == [i \in 1 .. capacity |-> from_ref(i)]

\* Interner::with_capacity(capacity, hasher): IndexSet::with_capacity_and_hasher,
\* room for capacity elements and no element.
with_capacity(capacity) == << >>

\* Default::default(): Self::new(S::default()).
default == new

\* What an intern_* call yields: res = Result<H, InternerError>, the store
\* after the call, and how often make() and from_ref()/to_owned() ran.
Outcome(res, s, made, conv) == [res |-> res, items |-> s, made |-> made, conv |-> conv]

\* intern_owned inserting before the overflow check.
intern_owned_insert_first(s, item) ==
  LET found == get_index_of(s, borrow(item)) IN
  IF found # None
  THEN Outcome(idx_to_handle(found[1]), s, 0, 0)
  ELSE Outcome(idx_to_handle(Len(s)), insert(s, item), 0, 0)

\* Interner::intern_owned(item: T).
intern_owned(s, item) ==
  LET found == get_index_of(s, borrow(item)) IN
  IF found # None
  THEN Outcome(idx_to_handle(found[1]), s, 0, 0)
  ELSE LET handle == idx_to_handle(Len(s)) IN
       IF handle.err
       THEN Outcome(handle, s, 0, 0)
       ELSE Outcome(handle, insert(s, item), 0, 0)

\* intern_ref building the owned value before the overflow check.
intern_ref_convert_first(s, q) ==
  LET found == get_index_of(s, q) IN
  IF found # None
  THEN Outcome(idx_to_handle(found[1]), s, 0, 0)
  ELSE LET h == idx_to_handle(Len(s)) IN
       IF h.err
       THEN Outcome(h, s, 0, 1)
       ELSE Outcome(h, insert(s, from_ref(q)), 0, 1)

\* Interner::intern_ref(item: &Q): from_ref runs once, on a miss that fits.
intern_ref(s, q) ==
  LET found == get_index_of(s, q) IN
  IF found # None
  THEN Outcome(idx_to_handle(found[1]), s, 0, 0)
  ELSE LET h == idx_to_handle(Len(s)) IN
       IF h.err
       THEN Outcome(h, s, 0, 0)
       ELSE Outcome(h, insert(s, from_ref(q)), 0, 1)

\* Cow<'_, Q>: Borrowed(&Q) or Owned(T).
CowBorrowed(q) == [variant |-> "Borrowed", q |-> q]

CowOwned(t) == [variant |-> "Owned", t |-> t]

Cows == { CowBorrowed(q) : q \in Keys } \cup { CowOwned(t) : t \in Values }

\* Cow::as_ref(): the borrowed view of either variant.
cow_as_ref(c) == IF c.variant = "Owned" THEN borrow(c.t) ELSE c.q

\* Cow::into_owned(): Owned moves its value out, Borrowed builds one (to_owned).
cow_into_owned(c) == IF c.variant = "Owned" THEN c.t ELSE from_ref(c.q)

\* intern_cow that probes for a Borrowed value only and appends an Owned one
\* at once.
intern_cow_owned_unprobed(s, c) ==
  LET found == IF c.variant = "Owned" THEN None ELSE get_index_of(s, cow_as_ref(c)) IN
  IF found # None
  THEN Outcome(idx_to_handle(found[1]), s, 0, 0)
  ELSE LET h == idx_to_handle(Len(s)) IN
       IF h.err
       THEN Outcome(h, s, 0, 0)
       ELSE Outcome(h, insert(s, cow_into_owned(c)), 0,
                    IF c.variant = "Borrowed" THEN 1 ELSE 0)

\* Interner::intern_cow(item: Cow<Q>).
intern_cow(s, c) ==
  LET found == get_index_of(s, cow_as_ref(c)) IN
  IF found # None
  THEN Outcome(idx_to_handle(found[1]), s, 0, 0)
  ELSE LET h == idx_to_handle(Len(s)) IN
       IF h.err
       THEN Outcome(h, s, 0, 0)
       ELSE Outcome(h, insert(s, cow_into_owned(c)), 0,
                    IF c.variant = "Borrowed" THEN 1 ELSE 0)

\* intern_ref_or_insert_with calling make() before the lookup.
intern_ref_or_insert_with_eager(s, key, made) ==
  LET found == get_index_of(s, key) IN
  IF found # None
  THEN Outcome(idx_to_handle(found[1]), s, 1, 0)
  ELSE LET h == idx_to_handle(Len(s)) IN
       IF h.err
       THEN Outcome(h, s, 1, 0)
       ELSE Outcome(h, insert(s, made), 1, 0)

\* Interner::intern_ref_or_insert_with(key: &Q, make: FnOnce() -> T); `made`
\* is the value make() returns when it is called.
intern_ref_or_insert_with(s, key, made) ==
  LET found == get_index_of(s, key) IN
  IF found # None
  THEN Outcome(idx_to_handle(found[1]), s, 0, 0)
  ELSE LET h == idx_to_handle(Len(s)) IN
       IF h.err
       THEN Outcome(h, s, 0, 0)
       ELSE Outcome(h, insert(s, made), 1, 0)

\* lookup_handle counting handles from one.
lookup_handle_one_based(s, q) ==
  LET found == get_index_of(s, q) IN
  IF found = None
  THEN [err |-> FALSE, h |-> None]
  ELSE idx_to_handle(found[1] + 1)

\* lookup_handle answering an absent key with the handle it would be given.
lookup_handle_next_free(s, q) ==
  LET found == get_index_of(s, q) IN
  IF found = None
  THEN idx_to_handle(Len(s))
  ELSE idx_to_handle(found[1])

\* Interner::lookup_handle(item: &Q) -> Result<Option<H>, InternerError>.
lookup_handle(s, q) ==
  LET found == get_index_of(s, q) IN
  IF found = None
  THEN [err |-> FALSE, h |-> None]
  ELSE idx_to_handle(found[1])

\* Interner::contains(item: &Q) -> bool.
contains(s, q) == set_contains(s, q)

\* Interner::resolve(handle: H) -> Option<&T>.
resolve(s, handle) ==
  LET idx == usize_try_from(handle) IN
  IF idx = None THEN None ELSE get_index(s, idx[1])

\* Interner::len().
len(s) == Len(s)

\* Interner::is_empty().
is_empty(s) == Len(s) = 0

\* remove that fills the hole with the last element instead of shifting.
remove_swapping(s, q) ==
  LET r == shift_remove_full(s, q) IN
  IF r.idx = None
  THEN [h |-> None, val |-> None, items |-> s]
  ELSE [h |-> h_try_from(r.idx[1]), val |-> r.val, items |-> swap_remove_at(s, r.idx[1])]

\* Interner::remove(item: &Q) -> Option<(H, T)>.  The value leaves the set
\* before the index is converted; a failed conversion yields None.
remove(s, q) ==
  LET r == shift_remove_full(s, q) IN
  IF r.idx = None
  THEN [h |-> None, val |-> None, items |-> s]
  ELSE LET handle == h_try_from(r.idx[1]) IN
       IF handle = None
       THEN [h |-> None, val |-> None, items |-> r.items]
       ELSE [h |-> handle, val |-> r.val, items |-> r.items]

\* remove_handle that clamps an index past the end to the last index.
remove_handle_clamping(s, handle) ==
  LET idx == usize_try_from(handle) IN
  IF idx = None
  THEN [val |-> None, items |-> s]
  ELSE shift_remove_index(s, IF idx[1] >= Len(s) THEN Len(s) - 1 ELSE idx[1])

\* Interner::remove_handle(handle: H) -> Option<T>.
remove_handle(s, handle) ==
  LET idx == usize_try_from(handle) IN
  IF idx = None
  THEN [val |-> None, items |-> s]
  ELSE shift_remove_index(s, idx[1])

\* The loop body of repair_handles with >= in place of > and the decrement
\* taken without the conversions.
repair_handle_unguarded(removed, h) == IF h >= removed THEN h - 1 ELSE h

\* The loop body of repair_handles with >= in place of >.
repair_handle_inclusive(removed, h) ==
  IF h >= removed /\ h_try_from(h - 1) # None THEN h - 1 ELSE h

\* The loop body of Interner::repair_handles for one handle *h.
repair_handle(removed, h) ==
  IF h > removed
  THEN LET idx == usize_try_from(h) IN
       IF idx # None /\ h_try_from(idx[1] - 1) # None
       THEN h_try_from(idx[1] - 1)[1]
       ELSE h
  ELSE h

\* Interner::repair_handles(removed, handles): every supplied handle, in place.
repair_handles(removed, handles) ==
  [k \in DOMAIN handles |-> repair_handle(removed, handles[k])]

\* clear that leaves the value at index 0 in place.
clear_all_but_first(s) == IF s = << >> THEN s ELSE << Head(s) >>

\* Interner::clear().
clear(s) == << >>

\* IndexSet::reserve(additional) and IndexSet::shrink_to_fit() change the
\* allocation only; what they leave of the values is the set as it was.
set_reserve(s, additional) == s

\* shrink_to_fit that cuts the allocation one slot too short.
shrink_to_fit_short(s) == IF s = << >> THEN s ELSE SubSeq(s, 1, Len(s) - 1)

set_shrink_to_fit(s) == s

\* Interner::reserve(additional).
reserve(s, additional) == set_reserve(s, additional)

\* Interner::shrink_to_fit().
shrink_to_fit(s) == set_shrink_to_fit(s)

\* iter that walks the set from its last index down.
iter_reversed(s) == [i \in 1 .. Len(s) |-> get_index(s, Len(s) - i)[1]]

\* Interner::iter(): IndexSet::iter, the stored values by index.
iter(s) == [i \in 1 .. Len(s) |-> get_index(s, i - 1)[1]]

\* <&Interner as IntoIterator>::into_iter(): IndexSet::iter again.
into_iter_ref(s) == [i \in 1 .. Len(s) |-> get_index(s, i - 1)[1]]

\* <Interner as IntoIterator>::into_iter(self): IndexSet::into_iter, the
\* stored values moved out by index.
into_iter(s) == [i \in 1 .. Len(s) |-> get_index(s, i - 1)[1]]

\* export that collects the values from the last index down.
export_reversed(s) == [i \in 1 .. Len(s) |-> get_index(s, Len(s) - i)[1]]

\* Interner::export(self) -> Vec<T>: the owning iterator collected to a Vec.
export(s) == into_iter(s)

\* <T as AsRef<str>>::as_ref(&T): the bytes of a stored string.  The string
\* of key q is q - 1 bytes long (the string of key 1 is empty) and made of
\* the byte q, so that distinct keys are distinct strings of distinct lengths.
as_ref(t) == [i \in 1 .. (borrow(t) - 1) |-> borrow(t)]

\* The loop of export_arena over the remaining values s: push_str the value,
\* then push the arena's new length.
RECURSIVE fill_arena(_, _, _)
fill_arena(s, arena, offsets) ==
  IF s = << >>
  THEN [arena |-> arena, offsets |-> offsets]
  ELSE LET pushed == arena \o as_ref(Head(s)) IN
       fill_arena(Tail(s), pushed, Append(offsets, Len(pushed)))

\* export_arena without its offsets.push(0).
export_arena_no_first_offset(s) == fill_arena(s, << >>, << >>)

\* Interner::export_arena(self) -> (String, Vec<usize>).
export_arena(s) == fill_arena(s, << >>, << 0 >>)

----------------------------------------------------------------------------
(* The store under every call (Spec)                                       *)

\* The record of a call: op names the method; key is the borrowed probe and
\* item the owned value offered for storing; hin is a handle argument; err, h,
\* val and flag are the result (Overflow, a handle, a value, a bool); pre is
\* the store before the call; made and conv count the calls of make() and of
\* from_ref()/to_owned(); hs_in and hs_out are the handles given to
\* repair_handles before and after it; n is a returned usize; out is a
\* returned sequence of values; arena and offsets are what export_arena
\* returns; after tells what a removal or an intern_* call directly follows;
\* former is, in an intern_* call that offers the value the call before it
\* removed, the handle that value had.
NoCall ==
  [op |-> "new", cow |-> "", key |-> None, item |-> None, hin |-> None,
   err |-> FALSE, h |-> None, val |-> None, flag |-> FALSE, pre |-> << >>,
   made |-> 0, conv |-> 0, hs_in |-> << >>, hs_out |-> << >>,
   n |-> 0, out |-> << >>, arena |-> << >>, offsets |-> << >>, after |-> "",
   former |-> None]

\* The methods that take the interner by value: no call can follow them.
ConsumingOps == {"export", "export_arena", "into_iter"}

\* The interner has not been consumed.
Alive == last.op \notin ConsumingOps

InternOps == {"intern_owned", "intern_ref", "intern_cow", "intern_ref_or_insert_with"}

\* What the call being made directly follows: a removal directly follows an
\* Overflow ("overflow"), an intern_* call directly follows such a removal
\* that took a value out ("removal_after_overflow"), or neither ("").
AfterOverflow == IF last.op \in InternOps /\ last.err THEN "overflow" ELSE ""

AfterRemoval ==
  IF last.op \in {"remove", "remove_handle"} /\ last.val # None
       /\ last.after = "overflow"
  THEN "removal_after_overflow"
  ELSE ""

\* What a repair_handles(removed, ..) call directly follows: the remove that
\* returned removed or the remove_handle that took the value at removed out
\* ("removal"), or anything else ("").
AfterRemovalOf(removed) ==
  IF \/ last.op = "remove" /\ last.val # None /\ last.h = Some(removed)
     \/ last.op = "remove_handle" /\ last.val # None /\ last.hin = Some(removed)
  THEN "removal"
  ELSE ""

\* The handle item had when the call before this one removed it (None when
\* the call before removed nothing or another value).
FormerHandle(item) ==
  IF last.op = "remove" /\ last.val = Some(item) THEN last.h
  ELSE IF last.op = "remove_handle" /\ last.val = Some(item) THEN last.hin
  ELSE None

\* The record of an intern_* call with outcome o.
InternCall(op, cow, key, item, o) ==
  [NoCall EXCEPT !.op = op, !.cow = cow, !.key = Some(key), !.item = Some(item),
                 !.err = o.res.err, !.h = o.res.h, !.pre = items,
                 !.made = o.made, !.conv = o.conv, !.after = AfterRemoval,
                 !.former = FormerHandle(item)]

\* Every handle of type H in one list, as a caller may supply it to
\* repair_handles.
AllHandles == [i \in 1 .. HandleCount |-> i - 1]

\* The capacity hints a caller passes to with_capacity.
Capacities == 0 .. HandleCount

\* The constructors.
ConstructOps == {"new", "with_capacity", "default"}

\* A store built by Interner::new, with_capacity (for any capacity hint) or
\* default; the caller holds no handle.
Init ==
  /\ \/ /\ items = new
        /\ last = NoCall
     \/ \E capacity \in Capacities :
          /\ items = with_capacity(capacity)
          /\ last = [NoCall EXCEPT !.op = "with_capacity", !.n = capacity]
     \/ /\ items = default
        /\ last = [NoCall EXCEPT !.op = "default"]
  /\ held = << >>
  /\ pending = None

InternOwned(item) ==
  LET o == intern_owned(items, item) IN
  /\ items' = o.items
  /\ last' = InternCall("intern_owned", "", borrow(item), item, o)
  /\ UNCHANGED <<held, pending>>

InternRef(q) ==
  LET o == intern_ref(items, q) IN
  /\ items' = o.items
  /\ last' = InternCall("intern_ref", "", q, from_ref(q), o)
  /\ UNCHANGED <<held, pending>>

InternCow(c) ==
  LET o == intern_cow(items, c) IN
  /\ items' = o.items
  /\ last' = InternCall("intern_cow", c.variant, cow_as_ref(c), cow_into_owned(c), o)
  /\ UNCHANGED <<held, pending>>

InternRefOrInsertWith(key, made) ==
  LET o == intern_ref_or_insert_with(items, key, made) IN
  /\ items' = o.items
  /\ last' = InternCall("intern_ref_or_insert_with", "", key, made, o)
  /\ UNCHANGED <<held, pending>>

LookupHandle(q) ==
  LET r == lookup_handle(items, q) IN
  /\ last' = [NoCall EXCEPT !.op = "lookup_handle", !.key = Some(q),
                            !.err = r.err, !.h = r.h, !.pre = items]
  /\ UNCHANGED <<items, held, pending>>

Contains(q) ==
  /\ last' = [NoCall EXCEPT !.op = "contains", !.key = Some(q),
                            !.flag = contains(items, q), !.pre = items]
  /\ UNCHANGED <<items, held, pending>>

Resolve(handle) ==
  /\ last' = [NoCall EXCEPT !.op = "resolve", !.hin = Some(handle),
                            !.val = resolve(items, handle), !.pre = items]
  /\ UNCHANGED <<items, held, pending>>

Remove(q) ==
  LET r == remove(items, q) IN
  /\ items' = r.items
  /\ last' = [NoCall EXCEPT !.op = "remove", !.key = Some(q), !.h = r.h,
                            !.val = r.val, !.pre = items,
                            !.after = AfterOverflow]
  /\ UNCHANGED <<held, pending>>

RemoveHandle(handle) ==
  LET r == remove_handle(items, handle) IN
  /\ items' = r.items
  /\ last' = [NoCall EXCEPT !.op = "remove_handle", !.hin = Some(handle),
                            !.val = r.val, !.pre = items,
                            !.after = AfterOverflow]
  /\ UNCHANGED <<held, pending>>

\* repair_handles(removed, ..) on the list of every handle of type H.
RepairHandles(removed) ==
  /\ last' = [NoCall EXCEPT !.op = "repair_handles", !.hin = Some(removed),
                            !.pre = items, !.hs_in = AllHandles,
                            !.hs_out = repair_handles(removed, AllHandles),
                            !.after = AfterRemovalOf(removed)]
  /\ UNCHANGED <<items, held, pending>>

Clear ==
  /\ items' = clear(items)
  /\ last' = [NoCall EXCEPT !.op = "clear", !.pre = items]
  /\ UNCHANGED <<held, pending>>

LenCall ==
  /\ last' = [NoCall EXCEPT !.op = "len", !.n = len(items), !.pre = items]
  /\ UNCHANGED <<items, held, pending>>

IsEmpty ==
  /\ last' = [NoCall EXCEPT !.op = "is_empty", !.flag = is_empty(items),
                            !.pre = items]
  /\ UNCHANGED <<items, held, pending>>

\* capacity(): what the allocation holds, c items; the IndexSet keeps room
\* for at least the values it stores.
Capacity(c) ==
  /\ c >= len(items)
  /\ last' = [NoCall EXCEPT !.op = "capacity", !.n = c, !.pre = items]
  /\ UNCHANGED <<items, held, pending>>

\* iter() run to its end.
Iter ==
  /\ last' = [NoCall EXCEPT !.op = "iter", !.out = iter(items), !.pre = items]
  /\ UNCHANGED <<items, held, pending>>

\* for item in &interner, run to its end.
IntoIterRef ==
  /\ last' = [NoCall EXCEPT !.op = "into_iter_ref", !.out = into_iter_ref(items),
                            !.pre = items]
  /\ UNCHANGED <<items, held, pending>>

\* for item in interner, run to its end: the values move out and the
\* interner is gone.
IntoIter ==
  /\ items' = << >>
  /\ last' = [NoCall EXCEPT !.op = "into_iter", !.out = into_iter(items),
                            !.pre = items]
  /\ UNCHANGED <<held, pending>>

Reserve(additional) ==
  /\ items' = reserve(items, additional)
  /\ last' = [NoCall EXCEPT !.op = "reserve", !.n = additional, !.pre = items]
  /\ UNCHANGED <<held, pending>>

ShrinkToFit ==
  /\ items' = shrink_to_fit(items)
  /\ last' = [NoCall EXCEPT !.op = "shrink_to_fit", !.pre = items]
  /\ UNCHANGED <<held, pending>>

\* export(self): the values move to the returned Vec and the interner is gone.
Export ==
  /\ items' = << >>
  /\ last' = [NoCall EXCEPT !.op = "export", !.out = export(items), !.pre = items]
  /\ UNCHANGED <<held, pending>>

\* export_arena(self): the interner is gone.
ExportArena ==
  LET r == export_arena(items) IN
  /\ items' = << >>
  /\ last' = [NoCall EXCEPT !.op = "export_arena", !.arena = r.arena,
                            !.offsets = r.offsets, !.pre = items]
  /\ UNCHANGED <<held, pending>>

\* Every call needs the interner: none is enabled once it is consumed.
Next ==
  \/ Alive /\ \E t \in Values : InternOwned(t)
  \/ Alive /\ \E q \in Keys : InternRef(q)
  \/ Alive /\ \E c \in Cows : InternCow(c)
  \/ Alive /\ \E q \in Keys, t \in Values : InternRefOrInsertWith(q, t)
  \/ Alive /\ \E q \in Keys : LookupHandle(q)
  \/ Alive /\ \E q \in Keys : Contains(q)
  \/ Alive /\ \E h \in Handles : Resolve(h)
  \/ Alive /\ \E q \in Keys : Remove(q)
  \/ Alive /\ \E h \in Handles : RemoveHandle(h)
  \/ Alive /\ \E h \in Handles : RepairHandles(h)
  \/ Alive /\ Clear
  \/ Alive /\ LenCall
  \/ Alive /\ IsEmpty
  \/ Alive /\ \E c \in 0 .. (HandleCount + 1) : Capacity(c)
  \/ Alive /\ Iter
  \/ Alive /\ Export
  \/ Alive /\ ExportArena
  \/ Alive /\ IntoIterRef
  \/ Alive /\ IntoIter
  \/ Alive /\ \E n \in 0 .. HandleCount : Reserve(n)
  \/ Alive /\ ShrinkToFit

Spec == Init /\ [][Next]_vars

----------------------------------------------------------------------------
(* The store driven by a caller that keeps and repairs handles (SpecCaller) *)
(* as tests::test_remove_and_recover_handles_helper and                     *)
(* tests::test_repair_handles_in_structs do                                 *)

\* The function f without key k.
Drop(f, k) == [x \in (DOMAIN f) \ {k} |-> f[x]]

\* The function f with key k bound to v.
Bind(f, k, v) == [x \in (DOMAIN f) \cup {k} |-> IF x = k THEN v ELSE f[x]]

\* The value an intern_* call interned: the stored value matching the key on
\* a hit, the offered value (the item, or what make() returned) on a miss.
Interned(s, key, item) ==
  LET found == get_index_of(s, key) IN
  IF found # None THEN s[found[1] + 1] ELSE item

\* The caller interns (outcome o of an intern_* call probing key and offering
\* item) and keeps the returned handle for the value it interned.
KeepHandle(key, item, o) ==
  /\ pending = None
  /\ items' = o.items
  /\ held' = IF o.res.err THEN held
             ELSE Bind(held, borrow(Interned(items, key, item)), o.res.h[1])
  /\ UNCHANGED <<last, pending>>

CallerInternOwned(item) == KeepHandle(borrow(item), item, intern_owned(items, item))

CallerInternRef(q) == KeepHandle(q, from_ref(q), intern_ref(items, q))

CallerInternCow(c) == KeepHandle(cow_as_ref(c), cow_into_owned(c), intern_cow(items, c))

CallerInternRefOrInsertWith(key, made) ==
  KeepHandle(key, made, intern_ref_or_insert_with(items, key, made))

\* The caller removes: it drops the handle of the removed value and owes its
\* other handles a repair for the removed handle h.
DropHandle(h, val, s) ==
  /\ pending = None
  /\ val # None
  /\ items' = s
  /\ held' = Drop(held, borrow(val[1]))
  /\ pending' = h
  /\ UNCHANGED last

CallerRemove(q) ==
  LET r == remove(items, q) IN DropHandle(r.h, r.val, r.items)

CallerRemoveHandle(handle) ==
  LET r == remove_handle(items, handle) IN DropHandle(Some(handle), r.val, r.items)

\* After a removal the caller passes every handle it holds to repair_handles,
\* with the removed handle, before it interns or removes again.
CallerRepair ==
  /\ pending # None
  /\ held' = repair_handles(pending[1], held)
  /\ pending' = None
  /\ UNCHANGED <<items, last>>

\* clear() voids every handle issued so far; the caller drops them all.
CallerClear ==
  /\ items' = clear(items)
  /\ held' = << >>
  /\ pending' = None
  /\ UNCHANGED last

NextCaller ==
  \/ \E t \in Values : CallerInternOwned(t)
  \/ \E q \in Keys : CallerInternRef(q)
  \/ \E c \in Cows : CallerInternCow(c)
  \/ \E q \in Keys, t \in Values : CallerInternRefOrInsertWith(q, t)
  \/ \E q \in Keys : CallerRemove(q)
  \/ \E h \in Handles : CallerRemoveHandle(h)
  \/ CallerRepair
  \/ CallerClear

SpecCaller == Init /\ [][NextCaller]_vars

----------------------------------------------------------------------------
(* The store of a caller that only interns, keeps the handles it is given   *)
(* and exports at the end (SpecGrow), as                                    *)
(* tests::test_export_preserves_insertion_order does: no removal, no clear  *)

NextGrow ==
  \/ Alive /\ \E t \in Values : CallerInternOwned(t)
  \/ Alive /\ \E q \in Keys : CallerInternRef(q)
  \/ Alive /\ \E c \in Cows : CallerInternCow(c)
  \/ Alive /\ \E q \in Keys, t \in Values : CallerInternRefOrInsertWith(q, t)
  \/ Alive /\ Export

SpecGrow == Init /\ [][NextGrow]_vars

----------------------------------------------------------------------------
(* The float wrappers (src/src/float.rs) applied to every pair of floats    *)
(* (SpecFloat)                                                              *)

\* Width of the exponent field of the floats (8 for f32, 11 for f64), kept
\* small.
ExpBits == 2

\* Width of the mantissa field of an f64 (52), kept small; an f32 has one bit
\* less (23 against 52).
ManBits == 2

ManBitsOf(ty) == IF ty = "f32" THEN ManBits - 1 ELSE ManBits

\* Every float of type ty (f32 or f64), as IEEE 754 lays it out: a sign, a
\* biased exponent and a mantissa.  exp = 0 holds the zeros and subnormals,
\* an all-ones exp the infinities (man = 0) and the NaNs (man # 0).
Floats(ty) ==
  [ty : {ty}, sign : 0 .. 1, exp : 0 .. (2^ExpBits - 1),
   man : 0 .. (2^ManBitsOf(ty) - 1)]

\* f32::to_bits / f64::to_bits: sign, exponent and mantissa packed into an
\* unsigned integer, sign first.
to_bits(f) == (f.sign * 2^ExpBits + f.exp) * 2^ManBitsOf(f.ty) + f.man

is_nan(f) == f.exp = 2^ExpBits - 1 /\ f.man # 0

is_zero(f) == f.exp = 0 /\ f.man = 0

\* HashableF64(pub f64) and HashableF32(pub f32): the field .0 is `inner`.
HashableF64(value) == [inner |-> value]

HashableF32(value) == [inner |-> value]

\* <HashableF64 as PartialEq>::eq comparing the floats with f64's own ==:
\* a NaN equals nothing and the two zeros are equal.
HashableF64_eq_ieee(a, b) ==
  /\ ~is_nan(a.inner)
  /\ ~is_nan(b.inner)
  /\ \/ to_bits(a.inner) = to_bits(b.inner)
     \/ is_zero(a.inner) /\ is_zero(b.inner)

\* <HashableF64 as PartialEq>::eq.
HashableF64_eq(a, b) == to_bits(a.inner) = to_bits(b.inner)

\* <HashableF32 as PartialEq>::eq.
HashableF32_eq(a, b) == to_bits(a.inner) = to_bits(b.inner)

\* <HashableF64 as Hash>::hash: writes the bits to the hasher, whose state
\* is the sequence of integers written to it so far.
HashableF64_hash(a, state) == Append(state, to_bits(a.inner))

\* <HashableF32 as Hash>::hash.
HashableF32_hash(a, state) == Append(state, to_bits(a.inner))

\* The number a float that is not a NaN stands for, times a power of two
\* that makes it an integer: the implicit leading bit is set unless exp = 0
\* (zeros and subnormals), and both zeros stand for 0.  An infinity comes
\* out beyond every finite float of its sign.
float_value(f) ==
  LET m == IF f.exp = 0 THEN f.man ELSE 2^ManBitsOf(f.ty) + f.man
      e == IF f.exp = 0 THEN 0 ELSE f.exp - 1
  IN IF f.sign = 1 THEN 0 - m * 2^e ELSE m * 2^e

\* The native x <= y and x >= y of f32 and f64: false when either is a NaN.
float_le(x, y) == ~is_nan(x) /\ ~is_nan(y) /\ float_value(x) <= float_value(y)

float_ge(x, y) == ~is_nan(x) /\ ~is_nan(y) /\ float_value(x) >= float_value(y)

\* f32::partial_cmp / f64::partial_cmp -> Option<Ordering>, decided from
\* x <= y and x >= y.
float_partial_cmp(x, y) ==
  IF float_le(x, y)
  THEN IF float_ge(x, y) THEN Some("Equal") ELSE Some("Less")
  ELSE IF float_ge(x, y) THEN Some("Greater") ELSE None

\* An ordering of the wrappers by their bit patterns, in line with their ==.
HashableF64_partial_cmp_bits(a, b) ==
  IF to_bits(a.inner) < to_bits(b.inner) THEN Some("Less")
  ELSE IF to_bits(a.inner) = to_bits(b.inner) THEN Some("Equal")
  ELSE Some("Greater")

\* <HashableF64 as PartialOrd>::partial_cmp, derived: that of the field .0.
HashableF64_partial_cmp(a, b) == float_partial_cmp(a.inner, b.inner)

\* <HashableF32 as PartialOrd>::partial_cmp, derived.
HashableF32_partial_cmp(a, b) == float_partial_cmp(a.inner, b.inner)

\* Two wrappers a and b of one float type, before anything is applied to
\* them; no interner is involved.
InitFloat ==
  /\ items = << >>
  /\ held = << >>
  /\ pending = None
  /\ \/ \E x, y \in Floats("f64") :
          last = [op |-> "floats", a |-> HashableF64(x), b |-> HashableF64(y),
                  ab |-> FALSE, ba |-> FALSE, aa |-> FALSE,
                  ha |-> << >>, hb |-> << >>, cmp |-> None,
                  lt |-> FALSE, le |-> FALSE, gt |-> FALSE, ge |-> FALSE]
     \/ \E x, y \in Floats("f32") :
          last = [op |-> "floats", a |-> HashableF32(x), b |-> HashableF32(y),
                  ab |-> FALSE, ba |-> FALSE, aa |-> FALSE,
                  ha |-> << >>, hb |-> << >>, cmp |-> None,
                  lt |-> FALSE, le |-> FALSE, gt |-> FALSE, ge |-> FALSE]

\* a == b, b == a, a == a and the hashes of a and b from fresh hashers, for
\* two HashableF64.
F64EqHash ==
  /\ last.op = "floats"
  /\ last.a.inner.ty = "f64"
  /\ last' = [last EXCEPT !.op = "eq_hash",
                          !.ab = HashableF64_eq(last.a, last.b),
                          !.ba = HashableF64_eq(last.b, last.a),
                          !.aa = HashableF64_eq(last.a, last.a),
                          !.ha = HashableF64_hash(last.a, << >>),
                          !.hb = HashableF64_hash(last.b, << >>)]
  /\ UNCHANGED <<items, held, pending>>

\* The same for two HashableF32.
F32EqHash ==
  /\ last.op = "floats"
  /\ last.a.inner.ty = "f32"
  /\ last' = [last EXCEPT !.op = "eq_hash",
                          !.ab = HashableF32_eq(last.a, last.b),
                          !.ba = HashableF32_eq(last.b, last.a),
                          !.aa = HashableF32_eq(last.a, last.a),
                          !.ha = HashableF32_hash(last.a, << >>),
                          !.hb = HashableF32_hash(last.b, << >>)]
  /\ UNCHANGED <<items, held, pending>>

\* a.partial_cmp(&b), a < b, a <= b, a > b, a >= b and a == b for two
\* HashableF64; the four operators are PartialOrd's provided methods, which
\* read partial_cmp.
F64PartialCmp ==
  LET c == HashableF64_partial_cmp(last.a, last.b) IN
  /\ last.op = "floats"
  /\ last.a.inner.ty = "f64"
  /\ last' = [last EXCEPT !.op = "partial_cmp",
                          !.cmp = c,
                          !.lt = (c = Some("Less")),
                          !.le = (c \in {Some("Less"), Some("Equal")}),
                          !.gt = (c = Some("Greater")),
                          !.ge = (c \in {Some("Greater"), Some("Equal")}),
                          !.ab = HashableF64_eq(last.a, last.b)]
  /\ UNCHANGED <<items, held, pending>>

\* The same for two HashableF32.
F32PartialCmp ==
  LET c == HashableF32_partial_cmp(last.a, last.b) IN
  /\ last.op = "floats"
  /\ last.a.inner.ty = "f32"
  /\ last' = [last EXCEPT !.op = "partial_cmp",
                          !.cmp = c,
                          !.lt = (c = Some("Less")),
                          !.le = (c \in {Some("Less"), Some("Equal")}),
                          !.gt = (c = Some("Greater")),
                          !.ge = (c \in {Some("Greater"), Some("Equal")}),
                          !.ab = HashableF32_eq(last.a, last.b)]
  /\ UNCHANGED <<items, held, pending>>

NextFloat ==
  \/ F64EqHash
  \/ F32EqHash
  \/ F64PartialCmp
  \/ F32PartialCmp

SpecFloat == InitFloat /\ [][NextFloat]_vars

----------------------------------------------------------------------------
(* Properties                                                              *)

\* The last call was an intern_* call.
IsIntern == last.op \in InternOps

\* The last call was an intern_* call that returned Ok(handle).
InternOk == IsIntern /\ ~last.err

\* The last call was an intern_* call whose key matched a stored value.
InternHit == IsIntern /\ set_contains(last.pre, last.key[1])

\* The last call was an intern_* call whose key matched no stored value.
InternMiss == IsIntern /\ ~set_contains(last.pre, last.key[1])

\* The last call was an intern_ref_or_insert_with call that missed on its key
\* while the value make() returns was already stored.
MakeReturnsStored ==
  /\ last.op = "intern_ref_or_insert_with"
  /\ InternMiss
  /\ set_contains(last.pre, borrow(last.item[1]))

\* C1 (round trip): after a successful intern_owned, intern_ref, intern_cow or
\* intern_ref_or_insert_with call that returned handle h, resolve(h) is Some(v)
\* for the value v that was interned (the stored value matching the key on a
\* hit, the offered value, or what make() returned, on a miss).
C1_RoundTrip ==
  InternOk =>
    resolve(items, last.h[1]) = Some(Interned(last.pre, last.key[1], last.item[1]))

\* C2 (idempotence): an intern_* call that directly repeats a successful
\* intern_* call for the same logical value (the same key and the same offered
\* value or make) returns the same handle and leaves len as it was.
C2_Idempotent ==
  [][(InternOk /\ last'.op \in InternOps
        /\ last'.key = last.key /\ last'.item = last.item /\ last'.pre = items)
      => (~last'.err /\ last'.h = last.h /\ len(items') = len(items))]_vars

\* C3 (uniqueness): no two distinct indices of the store hold equal values.
C3_Unique ==
  \A i, j \in 1 .. Len(items) : i # j => borrow(items[i]) # borrow(items[j])

\* A call offered a value equal to a stored one under a key that matched none,
\* and the store holds several values.
C3_Witness == MakeReturnsStored /\ ~last.err /\ Len(items) >= 2

\* C4 (overflow boundary): an intern_* call for a value distinct from every
\* stored value returns the handle equal to the number of values stored before
\* it and appends the value, as long as that number is at most H::MAX; with
\* HandleCount values stored it returns Overflow and len stays HandleCount.
\* From a fresh store the distinct values so get handles 0, 1, ..., H::MAX in
\* order and the next one overflows.
C4_OverflowBoundary ==
  (InternMiss /\ ~set_contains(last.pre, borrow(last.item[1]))) =>
    IF Len(last.pre) < HandleCount
    THEN /\ ~last.err
         /\ last.h = Some(Len(last.pre))
         /\ items = Append(last.pre, last.item[1])
    ELSE /\ last.err
         /\ len(items) = HandleCount
         /\ Len(last.pre) = HandleCount

\* The store holds the values with handles 0 .. H::MAX in the order they were
\* offered, and one more distinct value has just been refused.
C4_Witness ==
  /\ InternMiss
  /\ last.err
  /\ len(items) = HandleCount
  /\ \A i \in 1 .. Len(items) : resolve(items, i - 1) = Some(from_ref(i))

\* C5 (transactional failure): an intern_* call that returns Overflow leaves
\* the store as it was: the same values at the same indices.
C5_Transactional == (IsIntern /\ last.err) => items = last.pre

\* An intern_* call has returned Overflow.
C5_Witness == IsIntern /\ last.err /\ last.op = "intern_owned"

\* C6 (Overflow only on a new insertion): an intern_* call whose value is
\* already stored (its key matches a stored value, or the value it offers is
\* stored) returns Ok with the handle of that stored value, and lookup_handle,
\* contains and resolve never produce Overflow.
C6_OverflowOnlyOnNew ==
  /\ (IsIntern /\ set_contains(last.pre, borrow(Interned(last.pre, last.key[1], last.item[1]))))
       => /\ ~last.err
          /\ last.h = get_index_of(last.pre,
                        borrow(Interned(last.pre, last.key[1], last.item[1])))
  /\ last.op \in {"lookup_handle", "contains", "resolve"} => ~last.err

\* C7 (removal/repair law): for a caller that repairs every handle it holds
\* after each removal, every held handle whose value was not removed resolves
\* to the value it was issued for.
C7_RepairLaw ==
  pending = None =>
    \A k \in DOMAIN held : resolve(items, held[k]) = Some(from_ref(k))

\* C8 (remove): remove(key) for a key stored at index i returns handle i and
\* the stored value, decreases len by one, leaves the values below i in place
\* and moves each value at index j > i to index j - 1.
C8_RemoveShifts ==
  (last.op = "remove" /\ set_contains(last.pre, last.key[1])) =>
    LET i == get_index_of(last.pre, last.key[1])[1] IN
    /\ last.h = Some(i)
    /\ last.val = Some(last.pre[i + 1])
    /\ borrow(last.val[1]) = last.key[1]
    /\ len(items) = len(last.pre) - 1
    /\ \A j \in 0 .. (i - 1) : get_index(items, j) = get_index(last.pre, j)
    /\ \A j \in (i + 1) .. (Len(last.pre) - 1) :
         get_index(items, j - 1) = get_index(last.pre, j)

\* remove has taken a value out of the middle of the store.
C8_Witness ==
  /\ last.op = "remove"
  /\ last.h # None
  /\ last.h[1] > 0
  /\ last.h[1] < Len(last.pre) - 1

\* C9 (repair_handles): every supplied handle greater than removed is
\* decremented by one, every other supplied handle is left as it was, and the
\* store is not modified.
C9_Repair ==
  last.op = "repair_handles" =>
    /\ DOMAIN last.hs_out = DOMAIN last.hs_in
    /\ \A k \in DOMAIN last.hs_in :
         last.hs_out[k] = IF last.hs_in[k] > last.hin[1]
                          THEN last.hs_in[k] - 1
                          ELSE last.hs_in[k]
    /\ items = last.pre

\* repair_handles was given handles below, equal to and above removed.
C9_Witness ==
  /\ last.op = "repair_handles"
  /\ \E k \in DOMAIN last.hs_in : last.hs_in[k] < last.hin[1]
  /\ \E k \in DOMAIN last.hs_in : last.hs_in[k] = last.hin[1]
  /\ \E k \in DOMAIN last.hs_in :
       last.hs_in[k] > last.hin[1] /\ last.hs_out[k] = last.hs_in[k] - 1

\* The last call removed the value at index RemovedIndex.
Removed == last.op \in {"remove", "remove_handle"} /\ last.val # None

RemovedIndex == IF last.op = "remove" THEN last.h[1] ELSE last.hin[1]

\* C10 (stale handles): after the value at index i left a store of length n,
\* a handle j < i resolves to the value it had, a handle j with i <= j < n - 1
\* resolves to the value formerly at index j + 1, and handle n - 1 resolves to
\* None.
C10_StaleHandles ==
  Removed =>
    LET i == RemovedIndex
        n == Len(last.pre)
    IN /\ \A j \in 0 .. (i - 1) : resolve(items, j) = Some(last.pre[j + 1])
       /\ \A j \in i .. (n - 2) : resolve(items, j) = Some(last.pre[j + 2])
       /\ resolve(items, n - 1) = None

\* A removal left handles of all three kinds: below the removed index, at or
\* above it, and the former last one.
C10_Witness ==
  /\ Removed
  /\ RemovedIndex > 0
  /\ RemovedIndex < Len(last.pre) - 1

\* C11 (order law): with no removals, export() returns len values and, for
\* every index i below len, export()[i] is the value for which an intern_*
\* call returned handle i.
C11_OrderLaw ==
  last.op = "export" =>
    /\ Len(last.out) = len(last.pre)
    /\ \A k \in DOMAIN held :
         held[k] < Len(last.out) => last.out[held[k] + 1] = from_ref(k)

\* C12 (arena law): export_arena returns (buffer, offsets) where offsets has
\* len + 1 entries, offsets[0] = 0, the offsets never decrease, the slice
\* buffer[offsets[h] .. offsets[h + 1]] is the value stored at index h and
\* the last offset is the buffer's length, so that the buffer is the stored
\* values concatenated in index order; an empty store yields ("", [0]).
C12_ArenaLaw ==
  last.op = "export_arena" =>
    LET n == len(last.pre)
        off(h) == last.offsets[h + 1]
    IN /\ Len(last.offsets) = n + 1
       /\ off(0) = 0
       /\ off(n) = Len(last.arena)
       /\ \A h \in 0 .. (n - 1) :
            /\ off(h) <= off(h + 1)
            /\ off(h + 1) <= Len(last.arena)
            /\ SubSeq(last.arena, off(h) + 1, off(h + 1)) = as_ref(last.pre[h + 1])
       /\ n = 0 => (last.arena = << >> /\ last.offsets = << 0 >>)

\* export_arena ran on a store of several strings, an empty one among them.
C12_Witness ==
  /\ last.op = "export_arena"
  /\ len(last.pre) >= 2
  /\ \E i \in 1 .. Len(last.pre) : as_ref(last.pre[i]) = << >>
  /\ Len(last.arena) >= 2

\* C13 (lazy make): intern_ref_or_insert_with(key, make) does not invoke make
\* when the key matches a stored value; make runs at most once, and only in
\* a call whose key matched no stored value.
C13_MakeOnlyOnMiss ==
  last.op = "intern_ref_or_insert_with" =>
    /\ InternHit => last.made = 0
    /\ last.made \in {0, 1}
    /\ last.made = 1 => InternMiss

\* intern_ref_or_insert_with hit on its key with a make that would have
\* returned another value.
C13_Witness ==
  /\ last.op = "intern_ref_or_insert_with"
  /\ InternHit
  /\ ~last.err
  /\ borrow(last.item[1]) # last.key[1]

\* C14 as stated (one conversion per miss): intern_ref invokes from_ref
\* exactly once in every call that misses and zero times in every call that
\* hits.
C14_OncePerMiss ==
  last.op = "intern_ref" => last.conv = IF InternMiss THEN 1 ELSE 0

\* C14 (one conversion per inserting miss): intern_ref invokes from_ref
\* exactly once in every call that misses and returns a handle, and zero
\* times in every call that hits or returns Overflow.
C14_OncePerInsertingMiss ==
  last.op = "intern_ref" =>
    last.conv = IF InternMiss /\ ~last.err THEN 1 ELSE 0

\* intern_ref missed on a full store: Overflow, and nothing was converted.
C14_Witness ==
  /\ last.op = "intern_ref"
  /\ InternMiss
  /\ last.err
  /\ last.conv = 0
  /\ len(last.pre) = HandleCount

\* C15 (Cow equivalence): from the same store, intern_cow(Owned(v)) gives the
\* result, the store and the number of copies that intern_owned(v) gives, and
\* intern_cow(Borrowed(&v)) those that intern_ref(&v) gives, on a hit, on a
\* miss and on Overflow.
C15_CowEquivalence ==
  last.op = "intern_cow" =>
    LET o == IF last.cow = "Owned"
             THEN intern_owned(last.pre, last.item[1])
             ELSE intern_ref(last.pre, last.key[1])
    IN /\ last.err = o.res.err
       /\ last.h = o.res.h
       /\ items = o.items
       /\ last.conv = o.conv

\* intern_cow(Owned(v)) hit a value stored behind others.
C15_Witness ==
  /\ last.op = "intern_cow"
  /\ last.cow = "Owned"
  /\ InternHit
  /\ last.h # None
  /\ last.h[1] >= 1

\* C16 (handle equality): for any two successful intern_* calls on the same
\* interner, with no removal and no clear between them, the returned handles
\* are equal if and only if the interned values are equal.  held[k] is a
\* handle an intern_* call returned for the value of key k.
C16_HandleEquality ==
  \A k1, k2 \in DOMAIN held : (held[k1] = held[k2]) <=> (k1 = k2)

\* C17 (first Overflow): interning unique items into a fresh store, the first
\* call to return Overflow is the attempt to intern the HandleCount-th (2^w-th)
\* unique item: an intern_* call offering a value distinct from the n values
\* stored returns Overflow iff that value is at least the HandleCount-th.
C17_OverflowAtHandleCount ==
  (InternMiss /\ ~set_contains(last.pre, borrow(last.item[1]))) =>
    (last.err <=> len(last.pre) + 1 >= HandleCount)

\* C18 (absent results): remove(key) for a key that is not stored returns
\* None, remove_handle(h) and resolve(h) for a handle whose index is at least
\* len return None, none of them is an error, and each leaves the store as
\* it was.
C18_AbsentResults ==
  /\ (last.op = "remove" /\ ~set_contains(last.pre, last.key[1]))
       => (last.h = None /\ last.val = None /\ ~last.err /\ items = last.pre)
  /\ (last.op \in {"remove_handle", "resolve"} /\ last.hin[1] >= len(last.pre))
       => (last.val = None /\ ~last.err /\ items = last.pre)

\* remove_handle was given a handle past the end of a store that holds
\* values.
C18_Witness ==
  /\ last.op = "remove_handle"
  /\ last.hin[1] >= len(last.pre)
  /\ len(last.pre) >= 1
  /\ last.val = None

\* The methods that take &self and return what they read.
ReadOps == {"lookup_handle", "contains", "resolve", "len", "is_empty", "capacity", "iter"}

\* C19 (pure reads): lookup_handle, contains, resolve, len, is_empty,
\* capacity and iter leave the store as it was; lookup_handle for a key that
\* is not stored returns Ok(None) and the key is still not stored after it.
C19_PureReads ==
  /\ last.op \in ReadOps => items = last.pre
  /\ (last.op = "lookup_handle" /\ ~set_contains(last.pre, last.key[1]))
       => /\ ~last.err
          /\ last.h = None
          /\ ~contains(items, last.key[1])
          /\ len(items) = len(last.pre)

\* lookup_handle was asked for a key that a store holding values lacks.
C19_Witness ==
  /\ last.op = "lookup_handle"
  /\ ~set_contains(last.pre, last.key[1])
  /\ len(last.pre) >= 1
  /\ len(last.pre) < HandleCount

\* C20 (clear): clear leaves len = 0 and is_empty, after it every handle of
\* type H (so every handle issued before it) resolves to None, and the
\* intern_* call that directly follows a clear returns handle 0.
C20_ClearResets ==
  [][/\ last'.op = "clear"
          => /\ len(items') = 0
             /\ is_empty(items')
             /\ \A h \in Handles : resolve(items', h) = None
     /\ (last.op = "clear" /\ last'.op \in InternOps)
          => /\ ~last'.err
             /\ last'.h = Some(0)
             /\ resolve(items', 0) = last'.item]_vars

\* clear ran on a store that held several values.
C20_Witness ==
  /\ last.op = "clear"
  /\ len(last.pre) >= 2
  /\ is_empty(items)

\* == of two wrappers of the float type of a.
WrapperEq(a, b) ==
  IF a.inner.ty = "f64" THEN HashableF64_eq(a, b) ELSE HashableF32_eq(a, b)

\* C21 (bit-pattern equality): for HashableF32 and HashableF64, a == b holds
\* iff a and b have the same sign, exponent and mantissa bits; == is
\* reflexive, symmetric and transitive (over every third wrapper c); a NaN
\* equals itself, two NaNs of different encodings are unequal, +0.0 and -0.0
\* are unequal; and equal wrappers feed the same bits to a hasher.
C21_BitEquality ==
  last.op = "eq_hash" =>
    LET x == last.a.inner
        y == last.b.inner
    IN /\ last.ab <=> (x = y)
       /\ last.aa
       /\ last.ab <=> last.ba
       /\ \A z \in Floats(x.ty) :
            LET c == [inner |-> z] IN
            (last.ab /\ WrapperEq(last.b, c)) => WrapperEq(last.a, c)
       /\ (is_nan(x) /\ is_nan(y) /\ x # y) => ~last.ab
       /\ (is_zero(x) /\ is_zero(y) /\ x.sign # y.sign) => ~last.ab
       /\ last.ab => last.ha = last.hb

\* A HashableF64 NaN was compared with itself.
C21_Witness ==
  /\ last.op = "eq_hash"
  /\ last.a.inner.ty = "f64"
  /\ is_nan(last.a.inner)
  /\ last.a = last.b
  /\ last.ab
  /\ last.ha = last.hb

\* C22 (dense assignment on a miss): an intern_* call whose lookup finds no
\* stored value for its key and that does not overflow returns the handle
\* equal to len before the call, increases len by exactly one, stores the new
\* value at that index and leaves every value stored before at its index.
C22_DenseOnMiss ==
  (InternMiss /\ ~last.err) =>
    /\ last.h = Some(len(last.pre))
    /\ len(items) = len(last.pre) + 1
    /\ get_index(items, len(last.pre)) = last.item
    /\ \A i \in 0 .. (len(last.pre) - 1) :
         get_index(items, i) = get_index(last.pre, i)

\* C23 (density): in every reachable state the stored values occupy exactly
\* the indices 0 .. len - 1, that is resolve(h) is Some iff h < len, and the
\* handle a successful intern_* call returns is below len when it returns.
C23_Density ==
  /\ \A h \in Handles : (resolve(items, h) # None) <=> (h < len(items))
  /\ InternOk => last.h[1] < len(items)

\* C24 (lookup agreement): lookup_handle(k) never fails; it returns
\* Ok(Some(h)) iff contains(k) is true, and then resolve(h) is the stored
\* value of key k and an intern_* call for k that directly follows returns
\* the same h; otherwise it returns Ok(None).
C24_LookupAgrees ==
  [][/\ last'.op = "lookup_handle"
          => /\ ~last'.err
             /\ (last'.h # None) <=> contains(items', last'.key[1])
             /\ last'.h # None
                  => /\ resolve(items', last'.h[1]) # None
                     /\ borrow(resolve(items', last'.h[1])[1]) = last'.key[1]
     /\ (last.op = "lookup_handle" /\ last.h # None
           /\ last'.op \in InternOps /\ last'.key = last.key)
          => /\ ~last'.err
             /\ last'.h = last.h]_vars

\* lookup_handle found its key behind other stored values.
C24_Witness ==
  /\ last.op = "lookup_handle"
  /\ last.h # None
  /\ last.h[1] >= 1
  /\ contains(items, last.key[1])

\* C25 (export after any calls): in every reachable state, removals and
\* clear included, export() returns exactly len values and export()[i] is
\* the value resolve(i) returned just before the export, for every i < len.
C25_ExportCompacted ==
  last.op = "export" =>
    /\ Len(last.out) = len(last.pre)
    /\ \A i \in 0 .. (len(last.pre) - 1) :
         Some(last.out[i + 1]) = resolve(last.pre, i)

\* export ran on a full store whose values are not in the order of their
\* keys.
C25_Witness ==
  /\ last.op = "export"
  /\ len(last.pre) = HandleCount
  /\ borrow(last.pre[1]) > borrow(last.pre[2])

\* The calls that walk the stored values.
IterOps == {"iter", "into_iter_ref", "into_iter", "export"}

\* C26 (iteration order): iter(), iteration over &Interner, the consuming
\* into_iter() and export() each yield the stored values in index order, so
\* all four yield the same sequence from the same store; and any of the
\* four that directly follows an iter() yields the sequence that iter()
\* yielded (iter() can be restarted).
C26_IterationOrder ==
  [][/\ last'.op \in IterOps
          => /\ Len(last'.out) = len(last'.pre)
             /\ \A i \in 0 .. (len(last'.pre) - 1) :
                  Some(last'.out[i + 1]) = get_index(last'.pre, i)
             /\ iter(last'.pre) = last'.out
             /\ into_iter_ref(last'.pre) = last'.out
             /\ into_iter(last'.pre) = last'.out
             /\ export(last'.pre) = last'.out
     /\ (last.op = "iter" /\ last'.op \in IterOps)
          => last'.out = last.out]_vars

\* iter() walked a full store whose values are not in the order of their
\* keys.
C26_Witness ==
  /\ last.op = "iter"
  /\ len(last.pre) = HandleCount
  /\ last.out = items
  /\ borrow(last.out[1]) > borrow(last.out[HandleCount])

\* The calls that may shorten the store.
ShrinkingOps == {"remove", "remove_handle", "clear"}

\* C27 (growth and shrinkage): across every call that does not consume the
\* interner, len increases only in an intern_* call and then by exactly one,
\* len decreases only in remove, remove_handle or clear, and reserve,
\* shrink_to_fit and capacity leave the stored values, their indices and len
\* as they were.
C27_GrowthShrinkage ==
  [][last'.op \notin ConsumingOps
       => /\ len(items') > len(items)
               => (last'.op \in InternOps /\ len(items') = len(items) + 1)
          /\ len(items') < len(items) => last'.op \in ShrinkingOps
          /\ last'.op \in {"reserve", "shrink_to_fit", "capacity"}
               => items' = items]_vars

\* shrink_to_fit ran on a store holding several values that are not in the
\* order of their keys.
C27_Witness ==
  /\ last.op = "shrink_to_fit"
  /\ len(last.pre) >= 2
  /\ items = last.pre
  /\ borrow(items[1]) > borrow(items[2])

\* C28 (one removal): from the same store, remove(key) for a key stored at
\* index i and remove_handle(i) return the same value and leave the same
\* store, one value shorter; remove also returns the handle i.
C28_SameRemoval ==
  /\ (last.op = "remove" /\ last.h # None)
       => LET r == remove_handle(last.pre, last.h[1]) IN
          /\ r.val = last.val
          /\ r.items = items
          /\ len(items) = len(last.pre) - 1
  /\ (last.op = "remove_handle" /\ last.val # None)
       => LET r == remove(last.pre, borrow(last.val[1])) IN
          /\ r.h = last.hin
          /\ r.val = last.val
          /\ r.items = items
          /\ len(items) = len(last.pre) - 1

\* remove_handle took the first value out of a full store.
C28_Witness ==
  /\ last.op = "remove_handle"
  /\ last.val # None
  /\ last.hin = Some(0)
  /\ len(last.pre) = HandleCount

\* C29 (capacity invariant): in every reachable state len is at most
\* HandleCount, the number of values of the handle type, so the index of
\* every stored value converts to a handle; and remove(key) for a stored key
\* never returns None.
C29_CapacityInvariant ==
  /\ len(items) <= HandleCount
  /\ \A i \in 0 .. (len(items) - 1) : ~idx_to_handle(i).err
  /\ (last.op = "remove" /\ set_contains(last.pre, last.key[1]))
       => (last.h # None /\ last.val # None)

\* remove took the value with the highest handle out of a full store.
C29_Witness ==
  /\ last.op = "remove"
  /\ len(last.pre) = HandleCount
  /\ last.h = Some(HandleMax)
  /\ last.val # None

\* C30 (recovery from exhaustion): after an intern_* call has returned
\* Overflow on a store holding HandleCount values and a remove or
\* remove_handle has then taken one stored value out, the intern_* call that
\* follows, for a value distinct from every stored value, returns Ok with
\* the highest handle H::MAX and stores the value there.
C30_Recovery ==
  (IsIntern /\ last.after = "removal_after_overflow" /\ InternMiss
     /\ ~set_contains(last.pre, borrow(last.item[1])))
    => /\ ~last.err
       /\ last.h = Some(HandleMax)
       /\ resolve(items, HandleMax) = last.item
       /\ len(items) = HandleCount

\* After an Overflow and the removal of a stored value, a new value was
\* interned.
C30_Witness ==
  /\ IsIntern
  /\ last.after = "removal_after_overflow"
  /\ InternMiss
  /\ ~set_contains(last.pre, borrow(last.item[1]))
  /\ last.h = Some(HandleMax)
  /\ len(last.pre) = HandleMax

C32_Construction ==
  /\ last.op \in ConstructOps
       => /\ len(items) = 0
          /\ is_empty(items)
          /\ \A h \in Handles : resolve(items, h) = None
  /\ is_empty(items) <=> (len(items) = 0)
  /\ last.op = "is_empty" => (last.flag <=> (len(items) = 0))

\* A store was built by with_capacity with the largest capacity hint.
C32_Witness ==
  /\ last.op = "with_capacity"
  /\ last.n = HandleCount
  /\ items = with_capacity(last.n)
  /\ is_empty(items)

\* C33 (wrapper ordering): the ordering of HashableF32 and HashableF64 is the
\* native numeric comparison of the floats and stays partial: a wrapper
\* holding a NaN has no ordering with any wrapper (partial_cmp is None and
\* <, <=, >, >= are all false), itself included although it == itself; two
\* wrappers free of NaN are ordered as the numbers they hold; and +0.0 and
\* -0.0 compare as Equal although the wrappers are not ==.
C33_PartialOrdering ==
  last.op = "partial_cmp" =>
    LET x == last.a.inner
        y == last.b.inner
    IN /\ (is_nan(x) \/ is_nan(y))
            => /\ last.cmp = None
               /\ ~last.lt /\ ~last.le /\ ~last.gt /\ ~last.ge
       /\ (is_nan(x) /\ x = y) => (last.ab /\ last.cmp = None)
       /\ (~is_nan(x) /\ ~is_nan(y))
            => /\ last.cmp # None
               /\ last.lt <=> (float_value(x) < float_value(y))
               /\ last.gt <=> (float_value(x) > float_value(y))
               /\ (last.cmp = Some("Equal")) <=> (float_value(x) = float_value(y))
               /\ last.le <=> (last.lt \/ last.cmp = Some("Equal"))
               /\ last.ge <=> (last.gt \/ last.cmp = Some("Equal"))
       /\ (is_zero(x) /\ is_zero(y) /\ x.sign # y.sign)
            => (last.cmp = Some("Equal") /\ ~last.ab)

\* HashableF64(+0.0) was compared with HashableF64(-0.0): Equal, and not ==.
C33_Witness ==
  /\ last.op = "partial_cmp"
  /\ last.a.inner.ty = "f64"
  /\ is_zero(last.a.inner) /\ is_zero(last.b.inner)
  /\ last.a.inner.sign = 0 /\ last.b.inner.sign = 1
  /\ last.cmp = Some("Equal")
  /\ ~last.ab

\* C34 (no underflow in repair_handles): in a repair_handles call for the
\* handle that the remove before it returned, or that the remove_handle
\* before it took a value out at, every supplied handle h greater than
\* removed converts to an index of at least 1, index - 1 converts back to a
\* handle, which is what h becomes; every handle the call leaves is a value
\* of the handle type, and only handles of index at least 1 are changed.
C34_NoUnderflow ==
  (last.op = "repair_handles" /\ last.after = "removal") =>
    \A k \in DOMAIN last.hs_in :
      LET h == last.hs_in[k]
          idx == usize_try_from(h)
      IN /\ h > last.hin[1]
              => /\ idx # None
                 /\ idx[1] >= 1
                 /\ h_try_from(idx[1] - 1) # None
                 /\ last.hs_out[k] = h_try_from(idx[1] - 1)[1]
         /\ last.hs_out[k] \in Handles
         /\ last.hs_out[k] # h => (idx # None /\ idx[1] >= 1)

\* repair_handles ran for handle 0, which the removal before it had freed,
\* on handles that include 0, 1 and H::MAX: 1 became 0 and 0 stayed.
C34_Witness ==
  /\ last.op = "repair_handles"
  /\ last.after = "removal"
  /\ last.hin = Some(0)
  /\ \E k \in DOMAIN last.hs_in : last.hs_in[k] = 0 /\ last.hs_out[k] = 0
  /\ \E k \in DOMAIN last.hs_in : last.hs_in[k] = 1 /\ last.hs_out[k] = 0
  /\ \E k \in DOMAIN last.hs_in :
       last.hs_in[k] = HandleMax /\ last.hs_out[k] = HandleMax - 1

====
